---- MODULE Spec2Model ----
(***************************************************************************)
(* Magnum::Shaders::Phong (src/src/Magnum/Shaders/Phong.h).                *)
(*                                                                         *)
(* The object holds a flag set and nine uniform locations, both fixed by   *)
(* the constructor.  Its setters write into the state of the GL context:   *)
(* the uniform storage of the linked program and the texture bound to each *)
(* texture unit.  Colour setters are gated by the texture flag of their    *)
(* channel, texture setters by the same flag the other way round, the six  *)
(* remaining setters write unconditionally.                                *)
(*                                                                         *)
(* Values: Float is modelled by an integer (80.0f is 80), Color3 and       *)
(* Vector3 by a triple of integers (1.0f is 1), a matrix by its size and   *)
(* the factor k of k * identity.  A texture is its object id, 0 is         *)
(* nullptr / no texture bound.                                             *)
(***************************************************************************)
EXTENDS Integers, Sequences, FiniteSets, TLC

VARIABLES
    _flags,                          \* Flags _flags
    transformationMatrixUniform,     \* Int members, uniform locations
    projectionMatrixUniform,
    normalMatrixUniform,
    lightUniform,
    diffuseColorUniform,
    ambientColorUniform,
    specularColorUniform,
    lightColorUniform,
    shininessUniform,
    gl,                              \* GL context: uniform storage, texture units
    ctorFlags,                       \* history: the flags passed to the constructor
    calls,                           \* history: number of setter calls made
    history                          \* history: per setter, a record of its calls

locations == <<transformationMatrixUniform, projectionMatrixUniform,
               normalMatrixUniform, lightUniform, diffuseColorUniform,
               ambientColorUniform, specularColorUniform, lightColorUniform,
               shininessUniform>>

vars == <<_flags, locations, gl, ctorFlags, calls, history>>

----------------------------------------------------------------------------
\* Bounds of the model

\* a setter call is modelled while fewer than MaxCalls calls were made
MaxCalls == 2

\* components, matrix factors and shininess inputs range over 0..MaxValue
MaxValue == 1

\* texture objects are 1..MaxTexture
MaxTexture == 2

----------------------------------------------------------------------------
\* Flags

AmbientTexture == "AmbientTexture"
DiffuseTexture == "DiffuseTexture"
SpecularTexture == "SpecularTexture"

Flag == {AmbientTexture, DiffuseTexture, SpecularTexture}

Flags == SUBSET Flag

\* Flags flags() const
flags == _flags

----------------------------------------------------------------------------
\* Texture binding units

AmbientTextureLayer == 0

\* faulty variant: the diffuse layer shares the ambient unit
DiffuseTextureLayer_duplicate == AmbientTextureLayer

DiffuseTextureLayer == 1

\* faulty variant: the specular layer shares the diffuse unit
SpecularTextureLayer_duplicate == DiffuseTextureLayer

SpecularTextureLayer == 2

\* the texture units of the GL context that the layers name
TextureUnits == 0..2

\* Texture2D* nullptr; also "no texture bound" in a unit
NullTexture == 0

Textures == 1..MaxTexture

----------------------------------------------------------------------------
\* Value types

Color3s == {<<k, k, k>> : k \in 0..MaxValue}

Vector3s == {<<k, 0, k>> : k \in 0..MaxValue}

Matrix4s == {[size |-> 4, diag |-> k] : k \in 0..MaxValue}

Matrix3x3s == {[size |-> 3, diag |-> k] : k \in 0..MaxValue}

\* faulty variant: ambient colour starting white
DefaultAmbientColor_white == <<1, 1, 1>>

\* documented defaults ("If not set, default value is ...")
DefaultAmbientColor == <<0, 0, 0>>
DefaultSpecularColor == <<1, 1, 1>>
DefaultLightColor == <<1, 1, 1>>
DefaultShininess == 80

Floats == {DefaultShininess} \cup (1..MaxValue)

----------------------------------------------------------------------------
\* The external collaborators

\* AbstractShaderProgram::setUniform(location, value)
setUniform(g, location, value) ==
    [g EXCEPT !.uniforms[location] = value]

\* Texture2D::bind(unit)
bind(g, unit, texture) ==
    [g EXCEPT !.textureUnits[unit] = texture]

\* the locations the constructor resolves, in the order of the members
ResolvedLocations == <<0, 1, 2, 3, 4, 5, 6, 7, 8>>

\* uniform storage of the program after linking: the documented defaults,
\* zero for the uniforms that have none
LinkedUniforms ==
    [l \in 0..8 |->
        CASE l = ResolvedLocations[1] -> [size |-> 4, diag |-> 0]
          [] l = ResolvedLocations[2] -> [size |-> 4, diag |-> 0]
          [] l = ResolvedLocations[3] -> [size |-> 3, diag |-> 0]
          [] l = ResolvedLocations[4] -> <<0, 0, 0>>
          [] l = ResolvedLocations[5] -> <<0, 0, 0>>
          [] l = ResolvedLocations[6] -> DefaultAmbientColor
          [] l = ResolvedLocations[7] -> DefaultSpecularColor
          [] l = ResolvedLocations[8] -> DefaultLightColor
          [] l = ResolvedLocations[9] -> DefaultShininess]

----------------------------------------------------------------------------
\* The setters, as functions of the GL state g

setAmbientColor(g, color) ==
    IF ~(AmbientTexture \in _flags)
    THEN setUniform(g, ambientColorUniform, color)
    ELSE g

\* faulty variant: tests the ambient flag
setDiffuseColor_wrongFlag(g, color) ==
    IF ~(AmbientTexture \in _flags)
    THEN setUniform(g, diffuseColorUniform, color)
    ELSE g

setDiffuseColor(g, color) ==
    IF ~(DiffuseTexture \in _flags)
    THEN setUniform(g, diffuseColorUniform, color)
    ELSE g

\* faulty variant: no flag test
setSpecularColor_ungated(g, color) ==
    setUniform(g, specularColorUniform, color)

setSpecularColor(g, color) ==
    IF ~(SpecularTexture \in _flags)
    THEN setUniform(g, specularColorUniform, color)
    ELSE g

\* faulty variant: no flag test
setAmbientTexture_ungated(g, texture) ==
    bind(g, AmbientTextureLayer, texture)

setAmbientTexture(g, texture) ==
    IF AmbientTexture \in _flags
    THEN bind(g, AmbientTextureLayer, texture)
    ELSE g

setDiffuseTexture(g, texture) ==
    IF DiffuseTexture \in _flags
    THEN bind(g, DiffuseTextureLayer, texture)
    ELSE g

setSpecularTexture(g, texture) ==
    IF SpecularTexture \in _flags
    THEN bind(g, SpecularTextureLayer, texture)
    ELSE g

\* one pass over the three channels: a channel is bound when its reference
\* is present and its flag is set
setTextures(g, ambient, diffuse, specular) ==
    LET g1 == IF ambient # NullTexture /\ AmbientTexture \in _flags
              THEN bind(g, AmbientTextureLayer, ambient) ELSE g
        g2 == IF diffuse # NullTexture /\ DiffuseTexture \in _flags
              THEN bind(g1, DiffuseTextureLayer, diffuse) ELSE g1
    IN  IF specular # NullTexture /\ SpecularTexture \in _flags
        THEN bind(g2, SpecularTextureLayer, specular) ELSE g2

\* faulty variant: adds to the current value
setShininess_accumulate(g, shininess) ==
    setUniform(g, shininessUniform, g.uniforms[shininessUniform] + shininess)

setShininess(g, shininess) ==
    setUniform(g, shininessUniform, shininess)

setTransformationMatrix(g, matrix) ==
    setUniform(g, transformationMatrixUniform, matrix)

setNormalMatrix(g, matrix) ==
    setUniform(g, normalMatrixUniform, matrix)

\* faulty variant: writes the transformation matrix uniform
setProjectionMatrix_wrongSlot(g, matrix) ==
    setUniform(g, transformationMatrixUniform, matrix)

setProjectionMatrix(g, matrix) ==
    setUniform(g, projectionMatrixUniform, matrix)

setLightPosition(g, light) ==
    setUniform(g, lightUniform, light)

\* faulty variant: writes the specular colour too
setLightColor_alsoSpecular(g, color) ==
    setUniform(setUniform(g, lightColorUniform, color), specularColorUniform, color)

setLightColor(g, color) ==
    setUniform(g, lightColorUniform, color)

----------------------------------------------------------------------------
\* Construction

Setters == <<"setAmbientColor", "setDiffuseColor", "setSpecularColor",
             "setAmbientTexture", "setDiffuseTexture", "setSpecularTexture",
             "setTextures", "setShininess", "setTransformationMatrix",
             "setNormalMatrix", "setProjectionMatrix", "setLightPosition",
             "setLightColor">>

SetterNames == {Setters[i] : i \in 1..Len(Setters)}

\* a setter's record before its first call
NotCalled == [count |-> 0, last |-> <<>>, repeated |-> FALSE]

\* explicit Phong(Flags flags = Flags())
Init ==
    /\ _flags \in Flags
    /\ ctorFlags = _flags
    /\ transformationMatrixUniform = ResolvedLocations[1]
    /\ projectionMatrixUniform = ResolvedLocations[2]
    /\ normalMatrixUniform = ResolvedLocations[3]
    /\ lightUniform = ResolvedLocations[4]
    /\ diffuseColorUniform = ResolvedLocations[5]
    /\ ambientColorUniform = ResolvedLocations[6]
    /\ specularColorUniform = ResolvedLocations[7]
    /\ lightColorUniform = ResolvedLocations[8]
    /\ shininessUniform = ResolvedLocations[9]
    /\ gl = [uniforms |-> LinkedUniforms,
             textureUnits |-> [u \in TextureUnits |-> NullTexture]]
    /\ calls = 0
    /\ history = [s \in SetterNames |-> NotCalled]

----------------------------------------------------------------------------
\* Calls

\* the record of setter name after one more call, with argument arg: the
\* number of its calls, the argument of the last one, and whether that call
\* repeated the argument of the one before
Recorded(name, arg) ==
    [count |-> history[name].count + 1,
     last |-> arg,
     repeated |-> history[name].count > 0 /\ history[name].last = arg]

\* the effect of a call of setter name with argument arg that takes the GL
\* state to g: the object's members are const to every setter
Call(name, arg, g) ==
    /\ gl' = g
    /\ calls' = calls + 1
    /\ history' = [history EXCEPT ![name] = Recorded(name, arg)]
    /\ UNCHANGED <<_flags, locations, ctorFlags>>

\* faulty variant: switches the channel to colour mode and writes
Call_setAmbientColor_clearsFlag ==
    /\ calls < MaxCalls
    /\ \E color \in Color3s :
        /\ _flags' = _flags \ {AmbientTexture}
        /\ gl' = setUniform(gl, ambientColorUniform, color)
        /\ calls' = calls + 1
        /\ history' = [history EXCEPT !["setAmbientColor"] =
                                        Recorded("setAmbientColor", color)]
        /\ UNCHANGED <<locations, ctorFlags>>

Call_setAmbientColor ==
    /\ calls < MaxCalls
    /\ \E color \in Color3s :
        Call("setAmbientColor", color, setAmbientColor(gl, color))

Call_setDiffuseColor ==
    /\ calls < MaxCalls
    /\ \E color \in Color3s :
        Call("setDiffuseColor", color, setDiffuseColor(gl, color))

Call_setSpecularColor ==
    /\ calls < MaxCalls
    /\ \E color \in Color3s :
        Call("setSpecularColor", color, setSpecularColor(gl, color))

Call_setAmbientTexture ==
    /\ calls < MaxCalls
    /\ \E texture \in Textures :
        Call("setAmbientTexture", texture, setAmbientTexture(gl, texture))

Call_setDiffuseTexture ==
    /\ calls < MaxCalls
    /\ \E texture \in Textures :
        Call("setDiffuseTexture", texture, setDiffuseTexture(gl, texture))

Call_setSpecularTexture ==
    /\ calls < MaxCalls
    /\ \E texture \in Textures :
        Call("setSpecularTexture", texture, setSpecularTexture(gl, texture))

Call_setTextures ==
    /\ calls < MaxCalls
    /\ \E ambient, diffuse, specular \in Textures \cup {NullTexture} :
        Call("setTextures", <<ambient, diffuse, specular>>,
             setTextures(gl, ambient, diffuse, specular))

Call_setShininess ==
    /\ calls < MaxCalls
    /\ \E shininess \in Floats :
        Call("setShininess", shininess, setShininess(gl, shininess))

Call_setTransformationMatrix ==
    /\ calls < MaxCalls
    /\ \E matrix \in Matrix4s :
        Call("setTransformationMatrix", matrix, setTransformationMatrix(gl, matrix))

Call_setNormalMatrix ==
    /\ calls < MaxCalls
    /\ \E matrix \in Matrix3x3s :
        Call("setNormalMatrix", matrix, setNormalMatrix(gl, matrix))

Call_setProjectionMatrix ==
    /\ calls < MaxCalls
    /\ \E matrix \in Matrix4s :
        Call("setProjectionMatrix", matrix, setProjectionMatrix(gl, matrix))

Call_setLightPosition ==
    /\ calls < MaxCalls
    /\ \E light \in Vector3s :
        Call("setLightPosition", light, setLightPosition(gl, light))

Call_setLightColor ==
    /\ calls < MaxCalls
    /\ \E color \in Color3s :
        Call("setLightColor", color, setLightColor(gl, color))

Next ==
    \/ Call_setAmbientColor
    \/ Call_setDiffuseColor
    \/ Call_setSpecularColor
    \/ Call_setAmbientTexture
    \/ Call_setDiffuseTexture
    \/ Call_setSpecularTexture
    \/ Call_setTextures
    \/ Call_setShininess
    \/ Call_setTransformationMatrix
    \/ Call_setNormalMatrix
    \/ Call_setProjectionMatrix
    \/ Call_setLightPosition
    \/ Call_setLightColor

Spec == Init /\ [][Next]_vars

----------------------------------------------------------------------------
\* The interface, by setter name

\* the nine setters of a uniform
ValueSetters == {"setAmbientColor", "setDiffuseColor", "setSpecularColor",
                 "setShininess", "setTransformationMatrix", "setNormalMatrix",
                 "setProjectionMatrix", "setLightPosition", "setLightColor"}

\* the argument type of a setter of a uniform
Arguments(name) ==
    CASE name \in {"setAmbientColor", "setDiffuseColor", "setSpecularColor",
                   "setLightColor"} -> Color3s
      [] name \in {"setTransformationMatrix", "setProjectionMatrix"} -> Matrix4s
      [] name = "setNormalMatrix" -> Matrix3x3s
      [] name = "setLightPosition" -> Vector3s
      [] name = "setShininess" -> Floats

\* the call name(value) on GL state g
Apply(name, g, value) ==
    CASE name = "setAmbientColor" -> setAmbientColor(g, value)
      [] name = "setDiffuseColor" -> setDiffuseColor(g, value)
      [] name = "setSpecularColor" -> setSpecularColor(g, value)
      [] name = "setShininess" -> setShininess(g, value)
      [] name = "setTransformationMatrix" -> setTransformationMatrix(g, value)
      [] name = "setNormalMatrix" -> setNormalMatrix(g, value)
      [] name = "setProjectionMatrix" -> setProjectionMatrix(g, value)
      [] name = "setLightPosition" -> setLightPosition(g, value)
      [] name = "setLightColor" -> setLightColor(g, value)

\* the location of the uniform a setter is for
Location(name) ==
    CASE name = "setAmbientColor" -> ambientColorUniform
      [] name = "setDiffuseColor" -> diffuseColorUniform
      [] name = "setSpecularColor" -> specularColorUniform
      [] name = "setShininess" -> shininessUniform
      [] name = "setTransformationMatrix" -> transformationMatrixUniform
      [] name = "setNormalMatrix" -> normalMatrixUniform
      [] name = "setProjectionMatrix" -> projectionMatrixUniform
      [] name = "setLightPosition" -> lightUniform
      [] name = "setLightColor" -> lightColorUniform

\* whether the flags F passed to the constructor gate a setter of a uniform off
GatedOff(name, F) ==
    \/ name = "setAmbientColor" /\ AmbientTexture \in F
    \/ name = "setDiffuseColor" /\ DiffuseTexture \in F
    \/ name = "setSpecularColor" /\ SpecularTexture \in F

----------------------------------------------------------------------------
\* Claims

\* the model makes a further setter call from the current state
CallModelled == calls < MaxCalls

\* C1: on an instance constructed with flags F, for every colour c,
\* setAmbientColor(c) makes the ambient colour uniform c when AmbientTexture
\* is not in F and leaves it as it was when AmbientTexture is in F; likewise
\* setDiffuseColor with DiffuseTexture and setSpecularColor with
\* SpecularTexture.  Only the channel's own flag decides.
C1_ColorSetterGating ==
    \A c \in Color3s :
        /\ setAmbientColor(gl, c).uniforms[ambientColorUniform] =
               IF AmbientTexture \in ctorFlags
               THEN gl.uniforms[ambientColorUniform] ELSE c
        /\ setDiffuseColor(gl, c).uniforms[diffuseColorUniform] =
               IF DiffuseTexture \in ctorFlags
               THEN gl.uniforms[diffuseColorUniform] ELSE c
        /\ setSpecularColor(gl, c).uniforms[specularColorUniform] =
               IF SpecularTexture \in ctorFlags
               THEN gl.uniforms[specularColorUniform] ELSE c

\* C1 witness: constructed with {AmbientTexture}, setAmbientColor((1,1,1)) was
\* called and the ambient colour is still (0,0,0), while setDiffuseColor((1,1,1))
\* was called and the diffuse colour is (1,1,1)
C1_Witness ==
    /\ ctorFlags = {AmbientTexture}
    /\ history["setAmbientColor"].count = 1
    /\ history["setAmbientColor"].last = <<1, 1, 1>>
    /\ gl.uniforms[ambientColorUniform] = <<0, 0, 0>>
    /\ history["setDiffuseColor"].count = 1
    /\ history["setDiffuseColor"].last = <<1, 1, 1>>
    /\ gl.uniforms[diffuseColorUniform] = <<1, 1, 1>>

\* C2: in every state reached by setter calls after construction with flags
\* F, flags() is F and the nine uniform locations are the ones the
\* constructor resolved.
C2_FlagsAndLocationsImmutable ==
    /\ flags = ctorFlags
    /\ locations = ResolvedLocations

\* C2 witness: a colour setter and the batched texture setter were called on
\* an instance constructed with {AmbientTexture, DiffuseTexture}
C2_Witness ==
    /\ ctorFlags = {AmbientTexture, DiffuseTexture}
    /\ history["setAmbientColor"].count = 1
    /\ history["setTextures"].count = 1
    /\ flags = {AmbientTexture, DiffuseTexture}

\* C3: whatever the flags, each of setTransformationMatrix, setNormalMatrix,
\* setProjectionMatrix, setLightPosition, setLightColor and setShininess
\* called with v makes its own uniform v.
C3_UnconditionalSetters ==
    /\ \A m \in Matrix4s :
        /\ setTransformationMatrix(gl, m).uniforms[transformationMatrixUniform] = m
        /\ setProjectionMatrix(gl, m).uniforms[projectionMatrixUniform] = m
    /\ \A m \in Matrix3x3s :
        setNormalMatrix(gl, m).uniforms[normalMatrixUniform] = m
    /\ \A v \in Vector3s :
        setLightPosition(gl, v).uniforms[lightUniform] = v
    /\ \A c \in Color3s :
        setLightColor(gl, c).uniforms[lightColorUniform] = c
    /\ \A f \in Floats :
        setShininess(gl, f).uniforms[shininessUniform] = f

\* C3 witness: with all three texture flags set, setProjectionMatrix and
\* setLightColor were called and their uniforms hold the values passed
C3_Witness ==
    /\ ctorFlags = Flag
    /\ history["setProjectionMatrix"].count = 1
    /\ history["setProjectionMatrix"].last = [size |-> 4, diag |-> 1]
    /\ gl.uniforms[projectionMatrixUniform] = [size |-> 4, diag |-> 1]
    /\ history["setLightColor"].count = 1
    /\ history["setLightColor"].last = <<0, 0, 0>>
    /\ gl.uniforms[lightColorUniform] = <<0, 0, 0>>

C5_BatchedEqualsSingles ==
    ctorFlags = Flag /\ CallModelled =>
        \A a, d, s \in Textures :
            LET batched == setTextures(gl, a, d, s).textureUnits
                A(g) == setAmbientTexture(g, a)
                D(g) == setDiffuseTexture(g, d)
                S(g) == setSpecularTexture(g, s)
            IN  /\ S(D(A(gl))).textureUnits = batched
                /\ D(S(A(gl))).textureUnits = batched
                /\ S(A(D(gl))).textureUnits = batched
                /\ A(S(D(gl))).textureUnits = batched
                /\ D(A(S(gl))).textureUnits = batched
                /\ A(D(S(gl))).textureUnits = batched

\* C5 witness: with all flags set, setSpecularTexture(2) and then
\* setTextures(1, 2, 1) were called; units 0, 1, 2 hold textures 1, 2, 1
C5_Witness ==
    /\ ctorFlags = Flag
    /\ history["setSpecularTexture"].count = 1
    /\ history["setSpecularTexture"].last = 2
    /\ history["setTextures"].count = 1
    /\ history["setTextures"].last = <<1, 2, 1>>
    /\ gl.textureUnits = [u \in {0, 1, 2} |-> IF u = 1 THEN 2 ELSE 1]

\* C6: when its flag is set, setAmbientTexture(t) binds t to unit 0,
\* setDiffuseTexture(t) to unit 1 and setSpecularTexture(t) to unit 2, and
\* each leaves the textures bound to the other two units as they were.
C6_TextureUnits ==
    \A t \in Textures :
        /\ AmbientTexture \in ctorFlags =>
               setAmbientTexture(gl, t).textureUnits =
                   [u \in {0, 1, 2} |-> IF u = 0 THEN t ELSE gl.textureUnits[u]]
        /\ DiffuseTexture \in ctorFlags =>
               setDiffuseTexture(gl, t).textureUnits =
                   [u \in {0, 1, 2} |-> IF u = 1 THEN t ELSE gl.textureUnits[u]]
        /\ SpecularTexture \in ctorFlags =>
               setSpecularTexture(gl, t).textureUnits =
                   [u \in {0, 1, 2} |-> IF u = 2 THEN t ELSE gl.textureUnits[u]]

\* C6 witness: with the ambient and diffuse flags set, setAmbientTexture(1)
\* and setDiffuseTexture(2) were called; unit 0 holds 1, unit 1 holds 2 and
\* unit 2 nothing
C6_Witness ==
    /\ ctorFlags = {AmbientTexture, DiffuseTexture}
    /\ history["setAmbientTexture"].count = 1
    /\ history["setAmbientTexture"].last = 1
    /\ history["setDiffuseTexture"].count = 1
    /\ history["setDiffuseTexture"].last = 2
    /\ gl.textureUnits = [u \in {0, 1, 2} |-> IF u = 2 THEN 0 ELSE u + 1]

C8_Idempotent ==
    \A name \in ValueSetters :
        \A v \in Arguments(name) :
            Apply(name, Apply(name, gl, v), v) = Apply(name, gl, v)

\* C8 witness: the only two calls were setLightColor((0,0,0)) twice (the
\* default is (1,1,1)) and the light colour is (0,0,0)
C8_Witness ==
    /\ calls = 2
    /\ history["setLightColor"].count = 2
    /\ history["setLightColor"].repeated
    /\ history["setLightColor"].last = <<0, 0, 0>>
    /\ gl.uniforms[lightColorUniform] = <<0, 0, 0>>

\* C9: last write wins: in every reachable state each uniform holds the
\* argument of the most recent call of its setter, unless the flags passed
\* to the constructor gate that setter off or it was never called, and then
\* it holds its value at construction.
C9_LastWriteWins ==
    \A name \in ValueSetters :
        gl.uniforms[Location(name)] =
            IF history[name].count > 0 /\ ~GatedOff(name, ctorFlags)
            THEN history[name].last
            ELSE LinkedUniforms[Location(name)]

\* C9 witness: setShininess was called twice with different values, the
\* last one 1, and the shininess is 1
C9_Witness ==
    /\ history["setShininess"].count = 2
    /\ ~history["setShininess"].repeated
    /\ history["setShininess"].last = 1
    /\ gl.uniforms[shininessUniform] = 1

\* C10: a call of a setter of a uniform leaves the other eight uniforms and
\* the bound textures as they were, so that calls of setters of different
\* uniforms commute.  (Evaluated in every state a call is modelled from.)
C10_OneSlotPerSetter ==
    CallModelled =>
    \A i \in 1..Len(Setters) :
        Setters[i] \in ValueSetters =>
        \A v \in Arguments(Setters[i]) :
            LET name == Setters[i]
                after == Apply(name, gl, v)
            IN  /\ after.textureUnits = gl.textureUnits
                /\ DOMAIN after.uniforms = DOMAIN gl.uniforms
                /\ \A l \in DOMAIN gl.uniforms \ {Location(name)} :
                       after.uniforms[l] = gl.uniforms[l]
                /\ \A j \in (i + 1)..Len(Setters) :
                       Setters[j] \in ValueSetters =>
                       \A w \in Arguments(Setters[j]) :
                           Apply(Setters[j], after, w) =
                               Apply(name, Apply(Setters[j], gl, w), v)

\* C10 witness: without flags, setShininess(1) and setDiffuseColor((1,1,1))
\* were called; the two uniforms hold the values passed, the ambient, the
\* specular and the light colour their defaults
C10_Witness ==
    /\ ctorFlags = {}
    /\ history["setShininess"].count = 1
    /\ history["setDiffuseColor"].count = 1
    /\ gl.uniforms[shininessUniform] = 1
    /\ gl.uniforms[diffuseColorUniform] = <<1, 1, 1>>
    /\ gl.uniforms[lightColorUniform] = <<1, 1, 1>>
    /\ gl.uniforms[specularColorUniform] = <<1, 1, 1>>
    /\ gl.uniforms[ambientColorUniform] = <<0, 0, 0>>

====
